---- MODULE Spec2Model ----
(***************************************************************************)
(* The Hobbies component of hobby-picker (src/unnamed/part_000): the       *)
(* recursive score ordering, the category colour map, search, selection    *)
(* with its localStorage persistence, per-node counts and the "show more"  *)
(* disclosure counters, as a state machine over the React state of the     *)
(* component and the module-level colour map.                              *)
(*                                                                         *)
(* Representation.  A JavaScript string is a sequence of one-character     *)
(* strings, so that trim, toLowerCase, includes, template joining and JSON *)
(* text are computed character by character.  A Hobby is a record          *)
(* [name, score, items]; `items` absent and `items: []` are both <<>>:     *)
(* every function of the component treats the two alike (sortByScore maps  *)
(* [] to [], getAllHobbies and findCategory visit nothing, and             *)
(* getSelectedCount yields {0, 0} for both).                               *)
(***************************************************************************)
EXTENDS Integers, Sequences, FiniteSets, TLC

VARIABLES
    data,               \* the imported forest (./data), fixed for a run
    phase,              \* "load" | "unmounted" | "mounted" | "crashed"
    categoryColorsMap,  \* module-level Map<string, string>
    lastColor,          \* the last colour call made on its own and its result
    selectedHobbies,    \* React state: a JavaScript value, see JsArray
    storage,            \* localStorage item "selectedHobbies"
    lastWriteOk,        \* whether the last save effect's setItem returned
    writeFailures,      \* how many setItem calls have thrown so far
    tree,               \* the sorted forest the component renders
    searchTerm,         \* React state
    filteredHobbies,    \* React state
    expandedSections,   \* React state: Record<string, number>
    expandCalls         \* history: showMore calls per path key since the mount

vars == <<data, phase, categoryColorsMap, lastColor, selectedHobbies, storage,
          lastWriteOk, writeFailures, tree, searchTerm, filteredHobbies,
          expandedSections, expandCalls>>

-----------------------------------------------------------------------------
(* Bounds of the model.                                                    *)

\* most nodes (and so the deepest nesting) of a generated forest
MaxNodes == 3
\* scores of the forests that are only sorted and coloured: 1..MaxScore
MaxScore == 2
\* only the first MaxToggled names of the displayed tree are ever toggled
MaxToggled == 3
\* largest rank index passed to getCategoryColor by a direct call
MaxIndex == 11
\* most setItem calls that throw
MaxWriteFailures == 1

-----------------------------------------------------------------------------
(* Strings.                                                                *)

Range(s) == {s[i] : i \in DOMAIN s}

\* String.prototype.toLowerCase on the letters the model uses
LowerChar(c) ==
    CASE c = "A" -> "a"
      [] c = "B" -> "b"
      [] OTHER -> c

ToLowerCase(s) == [i \in DOMAIN s |-> LowerChar(s[i])]

IsWhiteSpace(c) == c = " "

RECURSIVE TrimStart(_)
TrimStart(s) ==
    IF s # <<>> /\ IsWhiteSpace(Head(s)) THEN TrimStart(Tail(s)) ELSE s

RECURSIVE TrimEnd(_)
TrimEnd(s) ==
    IF s # <<>> /\ IsWhiteSpace(s[Len(s)])
    THEN TrimEnd(SubSeq(s, 1, Len(s) - 1))
    ELSE s

\* String.prototype.trim
Trim(s) == TrimEnd(TrimStart(s))

\* String.prototype.includes: part occurs in s as a contiguous substring
StrIncludes(s, part) ==
    \E i \in 1..(Len(s) + 1) :
        /\ i + Len(part) - 1 <= Len(s)
        /\ SubSeq(s, i, i + Len(part) - 1) = part

Quote == "\""
Backslash == "\\"

Digits == <<"0", "1", "2", "3", "4", "5", "6", "7", "8", "9">>

RECURSIVE NumStr(_)
\* decimal text of a natural number, as a template literal prints it
NumStr(n) ==
    IF n < 10 THEN <<Digits[n + 1]>>
    ELSE NumStr(n \div 10) \o <<Digits[(n % 10) + 1]>>

-----------------------------------------------------------------------------
(* The taxonomy: interface Hobby and the forests the model draws `data`    *)
(* from.                                                                   *)

Hobby(n, sc, its) == [name |-> n, score |-> sc, items |-> its]

PageSize == 5

SmallNames == {<<"a">>, <<"A", "b">>}

ManyNames == {<<"a">>, <<"A", "b">>, <<"b">>}

Scores == {1, 2}

TopNames(hobbies) == {hobbies[i].name : i \in DOMAIN hobbies}

RECURSIVE ForestsWith(_, _, _, _)
\* every forest of exactly n nodes nested at most d deep, names drawn from
\* `names` and unique within each sibling list, scores from `scores`
ForestsWith(names, scores, n, d) ==
    IF n = 0 THEN {<<>>}
    ELSE IF d = 0 THEN {}
    ELSE UNION {
           UNION {
             UNION {
               {<<Hobby(nm, sc, kids)>> \o rest :
                    nm \in names \ TopNames(rest), sc \in scores}
               : kids \in ForestsWith(names, scores, k - 1, d - 1)}
             : rest \in ForestsWith(names, scores, n - k, d)}
           : k \in 1..n}

ForestsOf(names, scores) ==
    UNION {ForestsWith(names, scores, n, MaxNodes) : n \in 0..MaxNodes}

SmallForests == ForestsOf(SmallNames, Scores)

WideName(prefix, i) == <<prefix>> \o NumStr(i)

\* the items of the wide category: 2*PageSize+1 of them, more than two
\* pages; the name of the first holds a quote, which JSON text escapes
WideItems ==
    [j \in 1..(2 * PageSize + 1) |->
        Hobby(IF j = 1 THEN <<"B", Quote, "1">> ELSE WideName("B", j),
              j % 2, <<>>)]

\* one category with the wide item list
WideForest == <<Hobby(WideName("h", 1), 9, WideItems)>>

\* PageSize+1 categories, more than one page, the first with the wide
\* item list
TwoListForest ==
    [i \in 1..(PageSize + 1) |->
        Hobby(WideName("h", i),
              IF i = 1 THEN 9 ELSE i % 3,
              IF i = 1 THEN WideItems ELSE <<>>)]

Forests == SmallForests \cup {WideForest}

-----------------------------------------------------------------------------
(* Ordering engine: sortByScore.                                           *)

\* a comparator with its operands swapped: ascending order
compareFnAscending(a, b) == a.score - b.score

\* the comparator handed to Array.prototype.sort
compareFn(a, b) == b.score - a.score

RECURSIVE InsertSorted(_, _)
\* x goes behind every element the comparator does not order after it
InsertSorted(sorted, x) ==
    IF sorted = <<>> THEN <<x>>
    ELSE IF compareFn(Head(sorted), x) <= 0
         THEN <<Head(sorted)>> \o InsertSorted(Tail(sorted), x)
         ELSE <<x>> \o sorted

RECURSIVE InsertAll(_, _)
InsertAll(sorted, rest) ==
    IF rest = <<>> THEN sorted
    ELSE InsertAll(InsertSorted(sorted, Head(rest)), Tail(rest))

\* [...hobbies].sort(compareFn): Array.prototype.sort is stable
ArraySort(hobbies) == InsertAll(<<>>, hobbies)

RECURSIVE sortByScore(_)
sortByScore(hobbies) ==
    LET sorted == ArraySort(hobbies)
    IN  [i \in DOMAIN sorted |->
            Hobby(sorted[i].name, sorted[i].score,
                  sortByScore(sorted[i].items))]

-----------------------------------------------------------------------------
(* Flattening.                                                             *)

RECURSIVE getAllHobbies(_)
\* reduce: push the name, then the names of the items
getAllHobbies(hobbies) ==
    IF hobbies = <<>> THEN <<>>
    ELSE <<Head(hobbies).name>> \o getAllHobbies(Head(hobbies).items)
            \o getAllHobbies(Tail(hobbies))

RECURSIVE traverseAll(_)
\* forEach(traverse) over a list: traverse pushes the name and recurses
traverseAll(hobbies) ==
    IF hobbies = <<>> THEN <<>>
    ELSE <<Head(hobbies).name>> \o traverseAll(Head(hobbies).items)
            \o traverseAll(Tail(hobbies))

getAllHobbiesInOrder(hobbies) == traverseAll(sortByScore(hobbies))

-----------------------------------------------------------------------------
(* JavaScript values held by selectedHobbies, and JSON.                    *)
(* useState<string[]> is a compile-time type only: the initializer returns *)
(* whatever JSON.parse returns.  kind "other" stands for a number, a       *)
(* boolean or a plain object (no includes, no filter, length undefined)    *)
(* and keeps its JSON text in str.  An array element that is a number is   *)
(* the pair <<"#num", digit>>, which is no string.                         *)

JsArray(elems) == [kind |-> "array", elems |-> elems, str |-> <<>>]
JsString(chars) == [kind |-> "string", elems |-> <<>>, str |-> chars]
JsOther(text) == [kind |-> "other", elems |-> <<>>, str |-> text]
JsNull == [kind |-> "null", elems |-> <<>>, str |-> <<>>]

NumElem(d) == <<"#num", d>>
IsNumElem(e) == e # <<>> /\ e[1] = "#num"

NullText == <<"n", "u", "l", "l">>

RECURSIVE EscapeChars(_)
EscapeChars(s) ==
    IF s = <<>> THEN <<>>
    ELSE (IF Head(s) \in {Quote, Backslash}
          THEN <<Backslash, Head(s)>>
          ELSE <<Head(s)>>) \o EscapeChars(Tail(s))

\* JSON.stringify of a string
QuoteString(s) == <<Quote>> \o EscapeChars(s) \o <<Quote>>

StringifyElem(e) == IF IsNumElem(e) THEN <<e[2]>> ELSE QuoteString(e)

RECURSIVE JoinElems(_)
JoinElems(elems) ==
    IF elems = <<>> THEN <<>>
    ELSE IF Len(elems) = 1 THEN StringifyElem(Head(elems))
    ELSE StringifyElem(Head(elems)) \o <<",">> \o JoinElems(Tail(elems))

\* the names joined by commas, as Array.prototype.join writes them
JSONstringifyJoined(v) ==
    IF v.kind = "array" /\ v.elems # <<>>
    THEN LET joined[i \in 1..Len(v.elems)] ==
                 IF i = 1 THEN v.elems[1]
                 ELSE joined[i - 1] \o <<",">> \o v.elems[i]
         IN  joined[Len(v.elems)]
    ELSE <<>>

JSONstringify(v) ==
    CASE v.kind = "array" -> <<"[">> \o JoinElems(v.elems) \o <<"]">>
      [] v.kind = "string" -> QuoteString(v.str)
      [] v.kind = "null" -> NullText
      [] OTHER -> v.str

ParseFail == [ok |-> FALSE, val |-> <<>>, next |-> 0]

RECURSIVE ScanString(_, _, _)
\* the characters of a JSON string whose opening quote is before t[j]
ScanString(t, j, acc) ==
    IF j > Len(t) THEN ParseFail
    ELSE IF t[j] = Quote THEN [ok |-> TRUE, val |-> acc, next |-> j + 1]
    ELSE IF t[j] = Backslash
         THEN IF j + 1 <= Len(t) /\ t[j + 1] \in {Quote, Backslash}
              THEN ScanString(t, j + 2, Append(acc, t[j + 1]))
              ELSE ParseFail
    ELSE ScanString(t, j + 1, Append(acc, t[j]))

\* an element of an array: a string or a one-digit number
ParseElem(t, i) ==
    IF i > Len(t) THEN ParseFail
    ELSE IF t[i] = Quote THEN ScanString(t, i + 1, <<>>)
    ELSE IF t[i] \in Range(Digits)
         THEN [ok |-> TRUE, val |-> NumElem(t[i]), next |-> i + 1]
    ELSE ParseFail

RECURSIVE ParseElems(_, _, _)
\* the elements of an array from t[i] up to its closing bracket
ParseElems(t, i, acc) ==
    LET e == ParseElem(t, i)
    IN  IF ~e.ok \/ e.next > Len(t) THEN ParseFail
        ELSE IF t[e.next] = "]"
             THEN [ok |-> TRUE, val |-> Append(acc, e.val), next |-> e.next + 1]
        ELSE IF t[e.next] = ","
             THEN ParseElems(t, e.next + 1, Append(acc, e.val))
        ELSE ParseFail

\* JSON.parse: [ok |-> FALSE] is a thrown SyntaxError
JSONparse(t) ==
    IF t = <<>> THEN [ok |-> FALSE, val |-> JsNull]
    ELSE IF t[1] = "["
         THEN IF Len(t) = 2 /\ t[2] = "]"
              THEN [ok |-> TRUE, val |-> JsArray(<<>>)]
              ELSE LET r == ParseElems(t, 2, <<>>)
                   IN  IF r.ok /\ r.next = Len(t) + 1
                       THEN [ok |-> TRUE, val |-> JsArray(r.val)]
                       ELSE [ok |-> FALSE, val |-> JsNull]
    ELSE IF t[1] = Quote
         THEN LET r == ScanString(t, 2, <<>>)
              IN  IF r.ok /\ r.next = Len(t) + 1
                  THEN [ok |-> TRUE, val |-> JsString(r.val)]
                  ELSE [ok |-> FALSE, val |-> JsNull]
    ELSE IF t = NullText THEN [ok |-> TRUE, val |-> JsNull]
    ELSE IF t = <<"{", "}">> \/ Range(t) \subseteq Range(Digits)
         THEN [ok |-> TRUE, val |-> JsOther(t)]
    ELSE [ok |-> FALSE, val |-> JsNull]

\* localStorage: the item is absent (getItem returns null) or a text
NoItem == [present |-> FALSE, text |-> <<>>]
Item(t) == [present |-> TRUE, text |-> t]

\* the useState initializer of selectedHobbies
LoadSelectedHobbies(st) ==
    IF st.present /\ st.text # <<>>
    THEN LET r == JSONparse(st.text)
         IN  IF r.ok THEN r.val ELSE JsArray(<<>>)
    ELSE JsArray(<<>>)

-----------------------------------------------------------------------------
(* Category colours.  A colour is the character sequence of "#RRGGBB".     *)

baseColors ==
    << <<"#", "F", "F", "D", "5", "D", "5">>,
       <<"#", "D", "5", "F", "F", "D", "5">>,
       <<"#", "D", "5", "D", "5", "F", "F">>,
       <<"#", "F", "F", "D", "5", "F", "F">>,
       <<"#", "F", "F", "F", "F", "C", "4">>,
       <<"#", "F", "F", "D", "5", "C", "4">>,
       <<"#", "C", "4", "F", "F", "D", "5">>,
       <<"#", "D", "5", "F", "F", "F", "F">>,
       <<"#", "F", "F", "C", "4", "C", "4">>,
       <<"#", "D", "5", "C", "4", "F", "F">> >>

White == <<"#", "F", "F", "F", "F", "F", "F">>

HexLower ==
    <<"0", "1", "2", "3", "4", "5", "6", "7", "8", "9",
      "a", "b", "c", "d", "e", "f">>

\* a hex digit read case-insensitively, as parseInt does
LowerHex(c) ==
    CASE c = "A" -> "a" [] c = "B" -> "b" [] c = "C" -> "c"
      [] c = "D" -> "d" [] c = "E" -> "e" [] c = "F" -> "f"
      [] OTHER -> c

HexVal(c) ==
    CHOOSE v \in 0..15 : HexLower[v + 1] = LowerHex(c)

\* parseInt(text, 16) of two hex digits
ParseHex2(two) == 16 * HexVal(two[1]) + HexVal(two[2])

\* n.toString(16).padStart(2, "0") for 0 <= n <= 255
ToHex2(n) == <<HexLower[(n \div 16) + 1], HexLower[(n % 16) + 1]>>

Clamp(n) == IF n > 255 THEN 255 ELSE IF n < 0 THEN 0 ELSE n

\* Math.floor(Math.random() * 30) - 15 lies in -15..14; the triples of
\* offsets (one per channel) the model draws
VariationSamples == {<<-15, -15, -15>>, <<14, 14, 14>>, <<-15, 0, 14>>}

\* generateSimilarColor with the three variation() results it drew
generateSimilarColor(index, rnd) ==
    LET baseColor == baseColors[(index % Len(baseColors)) + 1]
        r == ParseHex2(SubSeq(baseColor, 2, 3))
        g == ParseHex2(SubSeq(baseColor, 4, 5))
        b == ParseHex2(SubSeq(baseColor, 6, 7))
    IN  <<"#">> \o ToHex2(Clamp(r + rnd[1])) \o ToHex2(Clamp(g + rnd[2]))
            \o ToHex2(Clamp(b + rnd[3]))

MapHas(map, key) == key \in DOMAIN map

\* a getCategoryColor that assigns on every call
getCategoryColorAlwaysSet(map, categoryName, index, rnd) ==
    LET color == IF index < Len(baseColors) THEN baseColors[index + 1]
                 ELSE generateSimilarColor(index, rnd)
        after == [k \in DOMAIN map \cup {categoryName} |->
                     IF k = categoryName THEN color ELSE map[k]]
    IN  [map |-> after, color |-> color]

\* getCategoryColor: the map after the call and the colour returned
getCategoryColor(map, categoryName, index, rnd) ==
    LET after ==
            IF ~MapHas(map, categoryName)
            THEN map @@ (categoryName :>
                            IF index < Len(baseColors)
                            THEN baseColors[index + 1]
                            ELSE generateSimilarColor(index, rnd))
            ELSE map
    IN  [map |-> after, color |-> after[categoryName]]

RECURSIVE ColorEach(_, _, _, _)
\* sortedData.forEach((hobby, index) => getCategoryColor(hobby.name, index))
\* from position i on; rnds[i] is what a generated colour at i draws
ColorEach(map, sortedData, i, rnds) ==
    IF i > Len(sortedData) THEN map
    ELSE ColorEach(
            getCategoryColor(map, sortedData[i].name, i - 1,
                             IF i \in DOMAIN rnds THEN rnds[i]
                             ELSE <<0, 0, 0>>).map,
            sortedData, i + 1, rnds)

\* colours handed out in the order of the data, not of the scores
initializeCategoryColorsDataOrder(map, forest, rnds) ==
    ColorEach(map, forest, 1, rnds)

initializeCategoryColors(map, forest, rnds) ==
    ColorEach(map, sortByScore(forest), 1, rnds)

EmptyMap == [k \in {} |-> White]

\* findCategory's results: null, or a name
NoCategory == [found |-> FALSE, name |-> <<>>]
Category(name) == [found |-> TRUE, name |-> name]

\* `if (found)`, `category ? ... : ...`: null and the empty string are falsy
Truthy(c) == c.found /\ c.name # <<>>

RECURSIVE findCategoryReturnsFound(_, _)
\* a findCategory that hands up what the level below returned
findCategoryReturnsFound(hobbies, target) ==
    IF hobbies = <<>> THEN NoCategory
    ELSE LET hobby == hobbies[1]
             found == findCategoryReturnsFound(hobby.items, target)
         IN  IF hobby.name = target THEN Category(hobby.name)
             ELSE IF Truthy(found) THEN found
             ELSE findCategoryReturnsFound(Tail(hobbies), target)

RECURSIVE findCategory(_, _)
\* findCategory(hobbies, target): the name of the first node of `hobbies`
\* that is the target or has it below
findCategory(hobbies, target) ==
    IF hobbies = <<>> THEN NoCategory
    ELSE LET hobby == hobbies[1]
             found == findCategory(hobby.items, target)
         IN  IF hobby.name = target THEN Category(hobby.name)
             ELSE IF Truthy(found) THEN Category(hobby.name)
             ELSE findCategory(Tail(hobbies), target)

\* getHobbyColor(hobbyName) over the map and the forest
getHobbyColor(map, forest, hobbyName) ==
    LET category == findCategory(sortByScore(forest), hobbyName)
    IN  IF Truthy(category)
        THEN (IF MapHas(map, category.name) THEN map[category.name]
              ELSE White)
        ELSE White

-----------------------------------------------------------------------------
(* Selection.                                                              *)

\* selectedHobbies.includes(hobby); Throws where it is no function
CanInclude(sel) == sel.kind \in {"array", "string"}

Includes(sel, hobby) ==
    IF sel.kind = "array" THEN hobby \in Range(sel.elems)
    ELSE StrIncludes(sel.str, hobby)

\* selectedHobbies.length > 0 (undefined > 0 is false)
LengthPositive(sel) ==
    CASE sel.kind = "array" -> Len(sel.elems) > 0
      [] sel.kind = "string" -> Len(sel.str) > 0
      [] OTHER -> FALSE

\* [...prev]: the elements of an array, the characters of a string
Spread(sel) ==
    IF sel.kind = "array" THEN sel.elems
    ELSE [i \in DOMAIN sel.str |-> <<sel.str[i]>>]

\* an updater that appends whether or not the name is there
toggleUpdaterAppendOnly(prev, hobby) ==
    [throws |-> FALSE, val |-> JsArray(Append(Spread(prev), hobby))]

\* the updater of toggleHobby; throws: a TypeError (no includes, no filter)
toggleUpdater(prev, hobby) ==
    IF ~CanInclude(prev) THEN [throws |-> TRUE, val |-> prev]
    ELSE IF Includes(prev, hobby)
         THEN IF prev.kind = "array"
              THEN [throws |-> FALSE,
                    val |-> JsArray(SelectSeq(prev.elems,
                                              LAMBDA h : h # hobby))]
              ELSE [throws |-> TRUE, val |-> prev]
    ELSE [throws |-> FALSE, val |-> JsArray(Append(Spread(prev), hobby))]

\* the selection in the order it was toggled
selectedInToggleOrder(sel, forest) ==
    SelectSeq(Spread(sel),
              LAMBDA h : h \in Range(getAllHobbiesInOrder(forest)))

\* orderedSelectedHobbies (useMemo)
orderedSelectedHobbies(sel, forest) ==
    SelectSeq(getAllHobbiesInOrder(forest), LAMBDA h : Includes(sel, h))

RECURSIVE CountSelected(_, _)
CountSelected(items, sel) ==
    IF items = <<>> THEN [selected |-> 0, total |-> 0]
    ELSE LET acc == CountSelected(SubSeq(items, 1, Len(items) - 1), sel)
             subHobby == items[Len(items)]
         IN  [total |-> acc.total + 1,
              selected |-> acc.selected
                            + (IF Includes(sel, subHobby.name) THEN 1 ELSE 0)]

RECURSIVE CountSelectedDeep(_, _)
CountSelectedDeep(items, sel) ==
    IF items = <<>> THEN [selected |-> 0, total |-> 0]
    ELSE LET acc == CountSelectedDeep(Tail(items), sel)
             below == CountSelectedDeep(Head(items).items, sel)
         IN  [total |-> acc.total + below.total + 1,
              selected |-> acc.selected + below.selected
                            + (IF Includes(sel, Head(items).name)
                               THEN 1 ELSE 0)]

\* a count over every descendant instead of the immediate children
getSelectedCountDeep(hobby, sel) == CountSelectedDeep(hobby.items, sel)

\* getSelectedCount: a reduce over hobby.items from {0, 0}
getSelectedCount(hobby, sel) ==
    IF hobby.items = <<>> THEN [selected |-> 0, total |-> 0]
    ELSE CountSelected(hobby.items, sel)

-----------------------------------------------------------------------------
(* Search.                                                                 *)

\* a search that matches the untrimmed value against the unsorted forest
searchResultsUntrimmed(value, forest) ==
    IF Trim(value) = <<>> THEN <<>>
    ELSE SelectSeq(getAllHobbies(forest),
                   LAMBDA hobby :
                       StrIncludes(ToLowerCase(hobby), ToLowerCase(value)))

\* handleSearch: the filtered list it sets for a typed value
searchResults(value, forest) ==
    LET trimmedValue == Trim(value)
    IN  IF trimmedValue = <<>> THEN <<>>
        ELSE LET allHobbies == getAllHobbies(sortByScore(forest))
                 searchLower == ToLowerCase(trimmedValue)
             IN  SelectSeq(allHobbies,
                           LAMBDA hobby :
                               StrIncludes(ToLowerCase(hobby), searchLower))

Queries == {<<>>, <<" ", " ">>, <<"a">>, <<" ", "B", " ">>}

-----------------------------------------------------------------------------
(* Disclosure: renderItems / renderHobby.                                  *)

Root == <<"r", "o", "o", "t">>

\* parentPath || "root"
PathKey(parentPath) == IF parentPath = <<>> THEN Root ELSE parentPath

\* `${parentPath}-${hobby.name}`, or hobby.name under the top level
currentPath(parentPath, name) ==
    IF parentPath # <<>> THEN parentPath \o <<"-">> \o name ELSE name

\* expandedSections[key] || 5
visibleCount(es, key) ==
    IF key \in DOMAIN es /\ es[key] # 0 THEN es[key] ELSE PageSize

Min(a, b) == IF a < b THEN a ELSE b

RECURSIVE ShowMoreButtons(_, _, _)
\* the path keys of the "Show more" buttons renderItems puts on screen for
\* a sorted sibling list and, through renderHobby, for the lists below its
\* visible slice
ShowMoreButtons(hobbies, parentPath, es) ==
    LET key == PathKey(parentPath)
        shown == Min(visibleCount(es, key), Len(hobbies))
    IN  (IF Len(hobbies) - visibleCount(es, key) > 0 THEN {key} ELSE {})
        \cup UNION {
               IF hobbies[i].items # <<>>
               THEN ShowMoreButtons(sortByScore(hobbies[i].items),
                                    currentPath(parentPath, hobbies[i].name),
                                    es)
               ELSE {}
               : i \in 1..shown}

\* an update that starts from the default whatever the key holds
showMoreUpdateFromDefault(prev, hobbyPath) ==
    [k \in DOMAIN prev \cup {hobbyPath} |->
        IF k = hobbyPath THEN PageSize + PageSize ELSE prev[k]]

\* showMore's update of expandedSections
showMoreUpdate(prev, hobbyPath) ==
    LET next == visibleCount(prev, hobbyPath) + PageSize
    IN  [k \in DOMAIN prev \cup {hobbyPath} |->
            IF k = hobbyPath THEN next ELSE prev[k]]

-----------------------------------------------------------------------------
(* Rendering the component body throws a TypeError when selectedHobbies    *)
(* has no usable includes (every name of the forest is tested with it) or  *)
(* is null (selectedHobbies.length).                                       *)

RenderThrows(sel, forest) ==
    \/ sel.kind = "null"
    \/ ~CanInclude(sel) /\ getAllHobbiesInOrder(forest) # <<>>

-----------------------------------------------------------------------------
(* The state machine.                                                      *)

NoSections == [k \in {} |-> 0]

NoCall == [name |-> <<>>, index |-> 0, color |-> <<>>]

InitWith(forests, items) ==
    /\ data \in forests
    /\ storage \in items
    /\ phase = "load"
    /\ categoryColorsMap = EmptyMap
    /\ lastColor = NoCall
    /\ selectedHobbies = JsArray(<<>>)
    /\ lastWriteOk = FALSE
    /\ writeFailures = 0
    /\ tree = <<>>
    /\ searchTerm = <<>>
    /\ filteredHobbies = <<>>
    /\ expandedSections = NoSections
    /\ expandCalls = NoSections

\* a fresh profile: nothing stored yet
Init == InitWith(Forests, {NoItem})

\* positions of the sorted top level whose colour is generated
GeneratedRanks(forest) == {i \in 1..Len(forest) : i - 1 >= Len(baseColors)}

\* module evaluation: initializeCategoryColors()
ModuleInit ==
    /\ phase = "load"
    /\ \E rnds \in [GeneratedRanks(data) -> VariationSamples] :
           categoryColorsMap' =
               initializeCategoryColors(categoryColorsMap, data, rnds)
    /\ phase' = "unmounted"
    /\ UNCHANGED <<data, lastColor, selectedHobbies, storage, lastWriteOk,
                   writeFailures, tree, searchTerm, filteredHobbies,
                   expandedSections, expandCalls>>

\* a save effect without the try/catch: the throw of setItem unmounts the
\* component
SavePhaseUncaught(ok) == IF ok THEN "mounted" ELSE "crashed"

\* the component after the save effect: the catch logs the throw of
\* setItem and the effect returns normally either way
SavePhase(ok) == "mounted"

\* the save effect: setItem returns (ok) or throws and is caught
SaveEffect(sel, ok) ==
    /\ ok \/ writeFailures < MaxWriteFailures
    /\ phase' = SavePhase(ok)
    /\ storage' = IF ok THEN Item(JSONstringify(sel)) ELSE storage
    /\ lastWriteOk' = ok
    /\ writeFailures' = IF ok THEN writeFailures ELSE writeFailures + 1

\* the component mounts: the useState initializers, the first render and,
\* when it did not throw, the save effect
Mount ==
    /\ phase = "unmounted"
    /\ LET loaded == LoadSelectedHobbies(storage)
       IN  /\ selectedHobbies' = loaded
           /\ IF RenderThrows(loaded, data)
              THEN /\ phase' = "crashed"
                   /\ UNCHANGED <<storage, lastWriteOk, writeFailures>>
              ELSE \E ok \in BOOLEAN : SaveEffect(loaded, ok)
    /\ tree' = sortByScore(data)
    /\ searchTerm' = <<>>
    /\ filteredHobbies' = <<>>
    /\ expandedSections' = NoSections
    /\ expandCalls' = NoSections
    /\ UNCHANGED <<data, categoryColorsMap, lastColor>>

\* the names a checkbox, a search result or a tag can hand to toggleHobby
Toggleable ==
    LET all == getAllHobbies(tree)
    IN  Range(SubSeq(all, 1, Min(MaxToggled, Len(all))))

\* toggleHobby(hobby), the render it causes and the save effect
Toggle(hobby) ==
    /\ phase = "mounted"
    /\ LET r == toggleUpdater(selectedHobbies, hobby)
       IN  IF r.throws \/ RenderThrows(r.val, data)
           THEN /\ phase' = "crashed"
                /\ UNCHANGED <<selectedHobbies, storage, lastWriteOk,
                               writeFailures>>
           ELSE /\ selectedHobbies' = r.val
                /\ \E ok \in BOOLEAN : SaveEffect(r.val, ok)
    /\ UNCHANGED <<data, categoryColorsMap, lastColor, tree, searchTerm,
                   filteredHobbies, expandedSections, expandCalls>>

\* clearAllHobbies(); its button shows while selectedHobbies.length > 0
Clear ==
    /\ phase = "mounted"
    /\ LengthPositive(selectedHobbies)
    /\ selectedHobbies' = JsArray(<<>>)
    /\ \E ok \in BOOLEAN : SaveEffect(JsArray(<<>>), ok)
    /\ UNCHANGED <<data, categoryColorsMap, lastColor, tree,
                   searchTerm, filteredHobbies, expandedSections,
                   expandCalls>>

\* handleSearch(value)
HandleSearch(value) ==
    /\ phase = "mounted"
    /\ searchTerm' = value
    /\ filteredHobbies' = searchResults(value, data)
    /\ UNCHANGED <<data, phase, categoryColorsMap, lastColor, selectedHobbies,
                   storage, lastWriteOk, writeFailures, tree,
                   expandedSections, expandCalls>>

\* showMore(hobbyPath), from a "Show more" button on screen
ShowMore(hobbyPath) ==
    /\ phase = "mounted"
    /\ hobbyPath \in ShowMoreButtons(tree, <<>>, expandedSections)
    /\ expandedSections' = showMoreUpdate(expandedSections, hobbyPath)
    /\ expandCalls' =
           [k \in DOMAIN expandCalls \cup {hobbyPath} |->
               IF k = hobbyPath
               THEN (IF k \in DOMAIN expandCalls THEN expandCalls[k] ELSE 0) + 1
               ELSE expandCalls[k]]
    /\ UNCHANGED <<data, phase, categoryColorsMap, lastColor, selectedHobbies,
                   storage, lastWriteOk, writeFailures, tree, searchTerm,
                   filteredHobbies>>

\* a handleClickOutside that also folds every list back to its first page
DismissResetsDisclosure ==
    /\ phase = "mounted"
    /\ searchTerm' = <<>>
    /\ filteredHobbies' = <<>>
    /\ expandedSections' = NoSections
    /\ expandCalls' = NoSections
    /\ UNCHANGED <<data, phase, categoryColorsMap, lastColor, selectedHobbies,
                   storage, lastWriteOk, writeFailures, tree>>

\* handleClickOutside: a mousedown outside the search box
Dismiss ==
    /\ phase = "mounted"
    /\ searchTerm' = <<>>
    /\ filteredHobbies' = <<>>
    /\ UNCHANGED <<data, phase, categoryColorsMap, lastColor, selectedHobbies,
                   storage, lastWriteOk, writeFailures, tree,
                   expandedSections, expandCalls>>

\* the page is reloaded: module and component state start over, the
\* stored item stays
Restart ==
    /\ phase \in {"mounted", "crashed"}
    /\ phase' = "load"
    /\ categoryColorsMap' = EmptyMap
    /\ lastColor' = NoCall
    /\ selectedHobbies' = JsArray(<<>>)
    /\ lastWriteOk' = FALSE
    /\ tree' = <<>>
    /\ searchTerm' = <<>>
    /\ filteredHobbies' = <<>>
    /\ expandedSections' = NoSections
    /\ expandCalls' = NoSections
    /\ UNCHANGED <<data, storage, writeFailures>>

PathKeys == ShowMoreButtons(tree, <<>>, expandedSections)

Next ==
    \/ ModuleInit
    \/ Mount
    \/ \E hobby \in Toggleable : Toggle(hobby)
    \/ Clear
    \/ \E value \in Queries : HandleSearch(value)
    \/ \E hobbyPath \in PathKeys : ShowMore(hobbyPath)
    \/ Dismiss
    \/ Restart

Spec == Init /\ [][Next]_vars

-----------------------------------------------------------------------------
(* Start-up alone, over a wider family of forests: the ordering and the    *)
(* colour initialization.                                                  *)

InitSort ==
    InitWith(ForestsOf(ManyNames, 1..MaxScore) \cup {WideForest, TwoListForest},
             {NoItem})

NextSort ==
    \/ ModuleInit
    \/ Mount
    \/ Restart

SpecSort == InitSort /\ [][NextSort]_vars

-----------------------------------------------------------------------------
(* The colour map under calls of getCategoryColor with any name and rank.  *)

\* forests of categories without items
FlatForests == UNION {ForestsWith(ManyNames, Scores, n, 1) : n \in 0..2}

CallNames == {<<"a">>, <<"z">>}

CallIndexes == (0..1) \cup ((MaxIndex - 1)..MaxIndex)

\* the variation() results a call can draw: none unless it generates
DrawsOf(map, categoryName, index) ==
    IF ~MapHas(map, categoryName) /\ index >= Len(baseColors)
    THEN VariationSamples
    ELSE {<<0, 0, 0>>}

\* getCategoryColor(categoryName, index) called on its own
DirectCall(categoryName, index) ==
    /\ phase \in {"load", "unmounted"}
    /\ \E rnd \in DrawsOf(categoryColorsMap, categoryName, index) :
           LET r == getCategoryColor(categoryColorsMap, categoryName, index,
                                     rnd)
           IN  /\ categoryColorsMap' = r.map
               /\ lastColor' = [name |-> categoryName, index |-> index,
                                color |-> r.color]
    /\ UNCHANGED <<data, phase, selectedHobbies, storage, lastWriteOk,
                   writeFailures, tree, searchTerm, filteredHobbies,
                   expandedSections, expandCalls>>

InitColor == InitWith(FlatForests, {NoItem})

NextColor ==
    \/ ModuleInit
    \/ \E categoryName \in CallNames, index \in CallIndexes :
           DirectCall(categoryName, index)

SpecColor == InitColor /\ [][NextColor]_vars

-----------------------------------------------------------------------------
(* The colour lookup of the render, name by name.                          *)

\* the names looked up: names of the forests and one that none of them has
LookupNames ==
    ManyNames \cup {<<"z">>, WideName("h", 1), WideName("B", 3),
                    <<"B", Quote, "1">>}

\* index of lastColor after a getHobbyColor lookup, which takes no index
NoIndex == 0 - 1

\* getHobbyColor(hobbyName), as the render calls it for a node, a tag or a
\* search result
Lookup(hobbyName) ==
    /\ phase = "mounted"
    /\ lastColor' = [name |-> hobbyName, index |-> NoIndex,
                     color |-> getHobbyColor(categoryColorsMap, data,
                                             hobbyName)]
    /\ UNCHANGED <<data, phase, categoryColorsMap, selectedHobbies, storage,
                   lastWriteOk, writeFailures, tree, searchTerm,
                   filteredHobbies, expandedSections, expandCalls>>

InitLookup == InitWith(ForestsOf(ManyNames, Scores) \cup {WideForest}, {NoItem})

NextLookup ==
    \/ ModuleInit
    \/ Mount
    \/ \E hobbyName \in LookupNames : Lookup(hobbyName)
    \/ Restart

SpecLookup == InitLookup /\ [][NextLookup]_vars

-----------------------------------------------------------------------------
(* Disclosure alone, over forests whose names hold the separator of the    *)
(* path keys.                                                              *)

\* PageSize+1 leaves named after a prefix
LeavesNamed(prefix) ==
    [j \in 1..(PageSize + 1) |-> Hobby(WideName(prefix, j), 1, <<>>)]

\* unique names, one of them with a "-": category a holds b, and b and the
\* category a-b each hold a list longer than a page
DashForest ==
    <<Hobby(<<"a">>, 9, <<Hobby(<<"b">>, 1, LeavesNamed("c"))>>),
      Hobby(<<"a", "-", "b">>, 8, LeavesNamed("d"))>>

InitPaths == InitWith(SmallForests \cup {WideForest, DashForest}, {NoItem})

NextPaths ==
    \/ ModuleInit
    \/ Mount
    \/ \E hobbyPath \in PathKeys : ShowMore(hobbyPath)
    \/ Restart

SpecPaths == InitPaths /\ [][NextPaths]_vars

-----------------------------------------------------------------------------
(* Start-up from any content of the stored item.                           *)

StoredSamples ==
    {NoItem,
     Item(<<>>),
     Item(<<"[">>),
     Item(<<"a">>),
     Item(<<"5">>),
     Item(NullText),
     Item(<<"{", "}">>),
     Item(QuoteString(<<"a">>)),
     Item(<<"[", "1", "]">>),
     Item(JSONstringify(JsArray(<<<<"a">>>>)))}

InitAnyStorage == InitWith(SmallForests, StoredSamples)

NextAnyStorage ==
    \/ ModuleInit
    \/ Mount
    \/ \E hobby \in Toggleable : Toggle(hobby)
    \/ Clear
    \/ Restart

SpecAnyStorage == InitAnyStorage /\ [][NextAnyStorage]_vars

-----------------------------------------------------------------------------
(* Properties.  The reference notions below are stated on their own, not   *)
(* through the operators that model the component.                         *)

PosOf(hobbies, name) == CHOOSE j \in DOMAIN hobbies : hobbies[j].name = name

RECURSIVE SortedAtEveryLevel(_, _)
\* out holds the siblings of inp, by descending score, equal scores in
\* their order in inp, and the same of the items of every sibling
SortedAtEveryLevel(inp, out) ==
    /\ Len(out) = Len(inp)
    /\ TopNames(out) = TopNames(inp)
    /\ \A i, j \in DOMAIN out : i < j => out[i].score >= out[j].score
    /\ \A i, j \in DOMAIN inp :
           i < j /\ inp[i].score = inp[j].score
               => PosOf(out, inp[i].name) < PosOf(out, inp[j].name)
    /\ \A i \in DOMAIN inp :
           LET o == out[PosOf(out, inp[i].name)]
           IN  /\ o.score = inp[i].score
               /\ SortedAtEveryLevel(inp[i].items, o.items)

RECURSIVE PreOrder(_)
\* the names of a forest, each node before its items, items before the
\* next sibling
PreOrder(forest) ==
    IF forest = <<>> THEN <<>>
    ELSE <<forest[1].name>> \o PreOrder(forest[1].items)
            \o PreOrder(Tail(forest))

RECURSIVE AllNodes(_)
AllNodes(forest) ==
    UNION {{forest[i]} \cup AllNodes(forest[i].items) : i \in DOMAIN forest}

\* the set of selected names
SelectedNames == Range(selectedHobbies.elems)

IsBlank(text) == \A i \in DOMAIN text : text[i] = " "

\* text without the blanks before its first and after its last other
\* character
TrimmedQuery(text) ==
    LET solid == {i \in DOMAIN text : text[i] # " "}
        lo == CHOOSE i \in solid : \A j \in solid : i <= j
        hi == CHOOSE i \in solid : \A j \in solid : i >= j
    IN  SubSeq(text, lo, hi)

SameLetter(c, d) ==
    \/ c = d
    \/ {c, d} \in {{"A", "a"}, {"B", "b"}}

ContainsIgnoringCase(name, q) ==
    \E off \in 0..(Len(name) - Len(q)) :
        \A k \in 1..Len(q) : SameLetter(name[off + k], q[k])

\* C1: sortByScore returns, at every level, the siblings of the input as a
\* permutation ordered by descending score in which siblings of equal score
\* keep their input order.
C1_SortStableDescending ==
    phase = "mounted" => SortedAtEveryLevel(data, tree)

C1_Witness ==
    /\ phase = "mounted"
    /\ \E i, j \in DOMAIN data : i < j /\ data[i].score = data[j].score
    /\ \E i \in DOMAIN data : tree[i].name # data[i].name
    /\ \E i \in DOMAIN data :
           \E k \in DOMAIN data[i].items :
               tree[PosOf(tree, data[i].name)].items[k].name
                   # data[i].items[k].name

\* C2: a blank query leaves no filtered results; any other query leaves
\* exactly the names of the sorted forest's pre-order that contain the
\* trimmed query ignoring case, in that order.
C2_SearchIsFilteredPreOrder ==
    phase = "mounted" =>
        filteredHobbies =
            IF IsBlank(searchTerm) THEN <<>>
            ELSE SelectSeq(PreOrder(tree),
                           LAMBDA n :
                               ContainsIgnoringCase(n,
                                                    TrimmedQuery(searchTerm)))

C2_Witness ==
    /\ phase = "mounted"
    /\ searchTerm = <<" ", "B", " ">>
    /\ Len(filteredHobbies) >= 2
    /\ Len(filteredHobbies) < Len(PreOrder(tree))
    /\ \E i \in DOMAIN filteredHobbies : filteredHobbies[i] \notin TopNames(data)

\* C3: the ordered selection is the sorted forest's pre-order restricted to
\* the selected names, so it is a function of the set of selected names and
\* not of the order of the toggles.
C3_OrderedSelectionIsTreeOrder ==
    phase = "mounted" =>
        orderedSelectedHobbies(selectedHobbies, data)
            = SelectSeq(PreOrder(tree), LAMBDA n : n \in SelectedNames)

C3_Witness ==
    /\ phase = "mounted"
    /\ Len(selectedHobbies.elems) = 2
    /\ selectedHobbies.elems[1] # selectedHobbies.elems[2]
    /\ orderedSelectedHobbies(selectedHobbies, data)
           = <<selectedHobbies.elems[2], selectedHobbies.elems[1]>>

\* C4: for every node, counts gives total = the number of its immediate
\* children and selected = the number of them whose name is selected, deeper
\* descendants not counted, and {0, 0} for a leaf.
C4_CountsImmediateChildren ==
    phase = "mounted" =>
        \A node \in AllNodes(tree) :
            LET c == getSelectedCount(node, selectedHobbies)
            IN  /\ c.total = Len(node.items)
                /\ c.selected =
                       Cardinality({i \in DOMAIN node.items :
                                       node.items[i].name \in SelectedNames})
                /\ 0 <= c.selected /\ c.selected <= c.total
                /\ node.items = <<>> => c = [selected |-> 0, total |-> 0]

C4_Witness ==
    /\ phase = "mounted"
    /\ \E node \in AllNodes(tree) :
           /\ getSelectedCount(node, selectedHobbies).selected = 0
           /\ \E i \in DOMAIN node.items :
                  \E g \in DOMAIN node.items[i].items :
                      node.items[i].items[g].name \in SelectedNames
    /\ \E node \in AllNodes(tree) :
           LET c == getSelectedCount(node, selectedHobbies)
           IN  1 <= c.selected

\* C5: toggle(x) is a symmetric difference of the selection with {x}, and
\* toggling x once more gives back the set of names selected before.
C5_ToggleIsSymmetricDifference ==
    [][\A x \in Toggleable :
          Toggle(x) =>
              LET before == Range(selectedHobbies.elems)
                  after == Range(selectedHobbies'.elems)
              IN  /\ phase' = "mounted"
                  /\ x \notin before => after = before \cup {x}
                  /\ x \in before => after = before \ {x}
                  /\ Range(toggleUpdater(selectedHobbies', x).val.elems)
                         = before]_vars

\* the stored item, left stale by a failed write, shows the selection
\* before a toggle that removed its first name and kept the other
C5_Witness ==
    /\ phase = "mounted"
    /\ ~lastWriteOk
    /\ storage.present
    /\ LET old == LoadSelectedHobbies(storage).elems
       IN  /\ Len(old) = 2
           /\ old[1] # old[2]
           /\ selectedHobbies.elems = <<old[2]>>

\* C6: after a toggle or clear (or the mount) whose write succeeded, the
\* stored item holds the whole selection: loading it, as a restart does,
\* gives the selection in memory.
C6_StoredItemIsSelection ==
    phase = "mounted" /\ lastWriteOk =>
        /\ storage.present
        /\ LoadSelectedHobbies(storage) = selectedHobbies

C6_Witness ==
    /\ phase = "mounted"
    /\ lastWriteOk
    /\ writeFailures = 1
    /\ Len(selectedHobbies.elems) = 2
    /\ <<"B", Quote, "1">> \in Range(selectedHobbies.elems)

\* the stored item holds a sequence of names
ValidStored(st) ==
    /\ st.present
    /\ JSONparse(st.text).ok
    /\ JSONparse(st.text).val.kind = "array"
    /\ \A e \in Range(JSONparse(st.text).val.elems) : ~IsNumElem(e)

\* C7: whatever the stored item holds at startup, a missing or invalid one
\* loads as the empty selection, and neither loading nor any later
\* operation raises a fatal error.
C7_AnyStoredItemLoadsSafely ==
    [][/\ phase = "unmounted" /\ ~ValidStored(storage)
           => selectedHobbies' = JsArray(<<>>)
       /\ phase' # "crashed"]_vars

\* the number of categories initialization colours before category k
Rank(forest, k) ==
    Cardinality({j \in DOMAIN forest :
                    \/ forest[j].score > forest[k].score
                    \/ forest[j].score = forest[k].score /\ j < k})

\* C8: with at most 10 top-level categories, after initialization the
\* category at rank i of the descending order has colour baseColors[i],
\* wherever it stands in the data.
C8_RankColours ==
    phase \in {"unmounted", "mounted"} /\ Len(data) <= 10 =>
        \A k \in DOMAIN data :
            /\ MapHas(categoryColorsMap, data[k].name)
            /\ categoryColorsMap[data[k].name]
                   = baseColors[Rank(data, k) + 1]

C8_Witness ==
    /\ phase = "unmounted"
    /\ Len(data) = 3
    /\ Rank(data, 1) = 2
    /\ data[2].score = data[3].score
    /\ categoryColorsMap[data[1].name] = baseColors[3]

\* C9: the colour map is append-only: a call never removes or changes an
\* entry, and a call for a name that has a colour returns that colour
\* whatever index it is given.
C9_ColourMapAppendOnly ==
    [][/\ \A n \in DOMAIN categoryColorsMap :
              /\ n \in DOMAIN categoryColorsMap'
              /\ categoryColorsMap'[n] = categoryColorsMap[n]
       /\ lastColor' # lastColor =>
              /\ lastColor'.color = categoryColorsMap'[lastColor'.name]
              /\ lastColor'.name \in DOMAIN categoryColorsMap =>
                     lastColor'.color = categoryColorsMap[lastColor'.name]
      ]_vars

\* a call with a palette index was answered with the colour the name had
C9_Witness ==
    /\ phase = "unmounted"
    /\ lastColor.name \in DOMAIN categoryColorsMap
    /\ lastColor.name \in TopNames(data)
    /\ lastColor.index < Len(baseColors)
    /\ lastColor.color # baseColors[lastColor.index + 1]
    /\ lastColor.color = categoryColorsMap[lastColor.name]

RECURSIVE SiblingListKeys(_, _)
\* the path key of a sibling list and of every sibling list below it
SiblingListKeys(hobbies, parentPath) ==
    {PathKey(parentPath)}
    \cup UNION {
           IF hobbies[i].items # <<>>
           THEN SiblingListKeys(hobbies[i].items,
                                currentPath(parentPath, hobbies[i].name))
           ELSE {}
           : i \in DOMAIN hobbies}

KnownKeys ==
    SiblingListKeys(tree, <<>>) \cup DOMAIN expandedSections
        \cup DOMAIN expandCalls \cup {<<"n", "o", "n", "e">>}

CallsOf(key) == IF key \in DOMAIN expandCalls THEN expandCalls[key] ELSE 0

C11_WriteFailureIsCaught ==
    /\ [][phase = "mounted" /\ writeFailures' > writeFailures =>
            /\ phase' = "mounted"
            /\ storage' = storage
            /\ \A x \in Toggleable :
                   Toggle(x) =>
                       SelectedNames' =
                           (SelectedNames \ {x}) \cup ({x} \ SelectedNames)
            /\ Clear => selectedHobbies' = JsArray(<<>>)]_vars
    /\ [][phase = "mounted" /\ ~lastWriteOk /\ phase' # "load" =>
            /\ phase' = "mounted"
            /\ \A x \in Toggleable :
                   Toggle(x) =>
                       SelectedNames' =
                           (SelectedNames \ {x}) \cup ({x} \ SelectedNames)]_vars

\* a toggle whose write failed: the selection holds a name, the stored
\* item still holds the empty selection written at the mount
C11_Witness ==
    /\ phase = "mounted"
    /\ ~lastWriteOk
    /\ writeFailures = 1
    /\ Len(selectedHobbies.elems) = 1
    /\ storage = Item(JSONstringify(JsArray(<<>>)))

\* the names of a forest are all different
UniqueNames(forest) ==
    LET names == PreOrder(forest)
    IN  \A i, j \in DOMAIN names : names[i] = names[j] => i = j

\* the names at or below a node
NamesUnder(node) == {node.name} \cup {n.name : n \in AllNodes(node.items)}

\* C12: in a forest of unique names, the colour looked up for a name of the
\* forest is the colour the map holds for the top-level category whose
\* subtree has the name (its own colour for a top-level category); the
\* colour looked up for a name the forest does not have is white.
C12_LookupIsCategoryColour ==
    phase = "mounted" /\ lastColor.index = NoIndex /\ UniqueNames(data) =>
        IF \E t \in Range(data) : lastColor.name \in NamesUnder(t)
        THEN \A t \in Range(data) :
                 lastColor.name \in NamesUnder(t) =>
                     /\ t.name \in DOMAIN categoryColorsMap
                     /\ lastColor.color = categoryColorsMap[t.name]
        ELSE lastColor.color = White

\* a name two levels below its category was looked up, in a forest of
\* unique names, and got the colour of that category
C12_Witness ==
    /\ phase = "mounted"
    /\ lastColor.index = NoIndex
    /\ UniqueNames(data)
    /\ \E t \in Range(data) :
           /\ lastColor.name \in NamesUnder(t)
           /\ lastColor.name # t.name
           /\ \A c \in Range(t.items) : lastColor.name # c.name
           /\ lastColor.color = categoryColorsMap[t.name]
           /\ lastColor.color # White

\* C13: a dismiss step empties the query text and the filtered results and
\* leaves the selection, the stored item and every disclosure count as they
\* were; a search step and a show-more step leave the selection as it was
\* (a step that changes the selection is neither); a toggle step and a
\* clear step leave the query text, the filtered results and every
\* disclosure count as they were.
C13_HandlersKeepTheirSlice ==
    [][/\ Dismiss =>
            /\ searchTerm' = <<>>
            /\ filteredHobbies' = <<>>
            /\ UNCHANGED <<selectedHobbies, storage, expandedSections>>
       /\ selectedHobbies' # selectedHobbies =>
              /\ \A value \in Queries : ~HandleSearch(value)
              /\ expandedSections' # expandedSections =>
                     \A hobbyPath \in PathKeys : ~ShowMore(hobbyPath)
              /\ \A hobby \in Toggleable :
                     Toggle(hobby) =>
                         UNCHANGED <<searchTerm, filteredHobbies,
                                     expandedSections>>
              /\ Clear =>
                     UNCHANGED <<searchTerm, filteredHobbies,
                                 expandedSections>>
      ]_vars

\* the state a dismiss leaves when a name is selected and stored and a list
\* shows its second page: no query, no results, the rest in place
C13_Witness ==
    /\ phase = "mounted"
    /\ searchTerm = <<>>
    /\ filteredHobbies = <<>>
    /\ Cardinality(SelectedNames) = 1
    /\ storage = Item(JSONstringify(selectedHobbies))
    /\ \E key \in DOMAIN expandedSections : expandedSections[key] = 10

RECURSIVE ListsOf(_, _, _)
\* the sibling lists of a forest, each by its position (the indexes that
\* lead to its parent) and with the path key the render gives it
ListsOf(hobbies, pos, parentPath) ==
    {[pos |-> pos, key |-> PathKey(parentPath)]}
    \cup UNION {
           IF hobbies[i].items # <<>>
           THEN ListsOf(hobbies[i].items, Append(pos, i),
                        currentPath(parentPath, hobbies[i].name))
           ELSE {}
           : i \in DOMAIN hobbies}

\* C14: in a forest of unique names, a show-more step raises the visible
\* count of one sibling list only: no two different sibling lists both
\* show more after it.
C14_ExpandIsPerSiblingList ==
    [][phase = "mounted" /\ UniqueNames(data) =>
          \A hobbyPath \in PathKeys :
              ShowMore(hobbyPath) =>
                  \A p, q \in ListsOf(tree, <<>>, <<>>) :
                      p.pos # q.pos =>
                          ~ /\ visibleCount(expandedSections', p.key)
                                 > visibleCount(expandedSections, p.key)
                            /\ visibleCount(expandedSections', q.key)
                                 > visibleCount(expandedSections, q.key)
      ]_vars

====
